---- MODULE Spec2Model ----
(***************************************************************************)
(* A model of generate_manifest.py: the sealed Merkle pipeline             *)
(* (leaf hashes -> merkle_root -> find_nonce_for_mod19) and the two        *)
(* manifest builders driven by main.                                       *)
(*                                                                         *)
(* Text is a sequence of Unicode code points, bytes are sequences of       *)
(* 0..255.  hashlib.sha3_256 is an external primitive: it is modelled by a *)
(* fixed deterministic function from byte strings to DigestLen-byte        *)
(* digests (DigestLen stands for the 32 bytes of SHA3-256).                *)
(***************************************************************************)
EXTENDS Integers, Sequences, FiniteSets, TLC

VARIABLES
    which,        \* args.which of main: "quran" or "torah"
    pc,           \* position of main / the running builder
    text,         \* build_quran_manifest: the fetched text (code points)
    sidrot_list,  \* main: the list of refs loaded from args.sidrot
    cache,        \* the on-disk cache out/cache: set of <<key, data>>
    pending,      \* the units the builder's for loop still has to visit
    units,        \* the <<name, verses>> of every iteration run so far
    manifest,     \* manifest["chapters"] / manifest["sidrot"]
    error,        \* the exception that ended main, or "none"
    outfile,      \* what main wrote: <<>> or <<[path, manifest]>>
    nroot,        \* find_nonce_for_mod19 called alone: its root argument
    nlimit,       \*   its limit argument
    nresult,      \*   what the call produced
    leaves,       \* merkle_root called alone: its argument
    mresult       \*   what the call produced

vars == <<which, pc, text, sidrot_list, cache, pending, units, manifest,
          error, outfile, nroot, nlimit, nresult, leaves, mresult>>

mainVars  == <<which, pc, text, sidrot_list, cache, pending, units,
               manifest, error, outfile>>
nonceVars == <<nroot, nlimit, nresult>>
merkleVars == <<leaves, mresult>>

----------------------------------------------------------------------------
(* Bounds of the model *)

\* digest size in bytes (32 for SHA3-256)
DigestLen == 2
\* largest limit handed to find_nonce_for_mod19 when it is called alone
MaxLimit == 8
\* the limit the builders search under (the default argument, 2_000_000
\* in the source, scaled to the size of the model's digests)
DefaultLimit == 15
\* longest leaf sequence handed to merkle_root when it is called alone
MaxLeaves == 5
\* most lines of a Qur'an text
MaxLines == 3
\* most refs in sidrot_list
MaxSidrot == 2

(* Program constants *)

\* find_nonce_for_mod19: int_mod(h, 19)
Modulus == 19
\* find_nonce_for_mod19: nonce.to_bytes(8, "big")
NonceWidth == 8

----------------------------------------------------------------------------
(* Bytes and the hash primitive *)

Pow256(k) == 256 ^ k

\* n.to_bytes(width, "big"), for 0 <= n < 256^width
RECURSIVE to_bytes(_, _)
to_bytes(n, width) ==
    IF width = 0 THEN <<>>
    ELSE Append(to_bytes(n \div 256, width - 1), n % 256)

\* int.from_bytes(b, "big")
RECURSIVE from_bytes(_)
from_bytes(b) ==
    IF b = <<>> THEN 0
    ELSE from_bytes(SubSeq(b, 1, Len(b) - 1)) * 256 + b[Len(b)]

\* The stand-in for hashlib.sha3_256: absorb the bytes one by one, then a
\* non-linear finalisation; the digest is DigestLen bytes.
RECURSIVE absorb(_, _)
absorb(acc, b) ==
    IF b = <<>> THEN acc
    ELSE absorb((acc * 31 + b[1] + 7) % Pow256(DigestLen), Tail(b))

sha3(b) ==
    LET a == absorb(5381 % Pow256(DigestLen), b)
        f == a * 97 + (a \div 256) * (a % 256) + (a % 7) * (a % 11) * (a % 13) + Len(b)
    IN  to_bytes(f % Pow256(DigestLen), DigestLen)

HexDigits == <<"0","1","2","3","4","5","6","7","8","9","a","b","c","d","e","f">>

\* b.hex(): two lowercase hex digits per byte; a hex string is the sequence
\* of its digits
RECURSIVE hhex(_)
hhex(b) ==
    IF b = <<>> THEN <<>>
    ELSE <<HexDigits[(b[1] \div 16) + 1], HexDigits[(b[1] % 16) + 1]>> \o hhex(Tail(b))

int_mod(b, m) == from_bytes(b) % m

----------------------------------------------------------------------------
(* merkle_root *)

\* the for loop of one while iteration: i runs over range(0, len(layer), 2),
\* here over the 1-based positions 1, 3, 5, ...
\* mutant: an odd last node is promoted unchanged
RECURSIVE merkle_pairs_promote(_, _, _)
merkle_pairs_promote(layer, i, nxt) ==
    IF i > Len(layer) THEN nxt
    ELSE IF i + 1 <= Len(layer)
         THEN merkle_pairs_promote(layer, i + 2, Append(nxt, sha3(layer[i] \o layer[i + 1])))
         ELSE Append(nxt, layer[i])

RECURSIVE merkle_pairs(_, _, _)
merkle_pairs(layer, i, nxt) ==
    IF i > Len(layer) THEN nxt
    ELSE LET left  == layer[i]
             right == IF i + 1 <= Len(layer) THEN layer[i + 1] ELSE left
         IN  merkle_pairs(layer, i + 2, Append(nxt, sha3(left \o right)))

\* mutant: the layer is folded before its length is tested
RECURSIVE merkle_while_fold_first(_)
merkle_while_fold_first(layer) ==
    LET nxt == merkle_pairs(layer, 1, <<>>)
    IN  IF Len(nxt) > 1 THEN merkle_while_fold_first(nxt) ELSE nxt[1]

RECURSIVE merkle_while(_)
merkle_while(layer) ==
    IF Len(layer) > 1 THEN merkle_while(merkle_pairs(layer, 1, <<>>))
    ELSE layer[1]

\* mutant: no leaves give an all-zero digest
merkle_root_zero_when_empty(lvs) ==
    IF lvs = <<>> THEN to_bytes(0, DigestLen)
    ELSE merkle_while(lvs)

merkle_root(lvs) ==
    IF lvs = <<>> THEN sha3(<<>>)
    ELSE merkle_while(lvs)

\* mutant: the fold runs in the caller's list (layer = leaves, layer[:] = nxt),
\* which is left holding the last layer
merkle_call_in_place(lvs) ==
    [root |-> merkle_root(lvs),
     arg  |-> IF Len(lvs) > 1 THEN <<merkle_root(lvs)>> ELSE lvs]

\* a call merkle_root(lvs) as its caller sees it: the value returned and the
\* list object passed, after the call.  The fold runs on the copy leaves[:]
\* and then on fresh lists, so the caller's list is as it was.
merkle_call(lvs) == [root |-> merkle_root(lvs), arg |-> lvs]

----------------------------------------------------------------------------
(* find_nonce_for_mod19 *)

Return(nonce, h) == [kind |-> "return", nonce |-> nonce, h |-> h]
Raise(exc)       == [kind |-> "raise", exc |-> exc]

\* mutant: the candidate equal to the limit is tried too
RECURSIVE nonce_loop_inclusive(_, _, _)
nonce_loop_inclusive(root, limit, nonce) ==
    IF nonce > limit
    THEN Raise("RuntimeError")
    ELSE LET h == sha3(root \o to_bytes(nonce, NonceWidth))
         IN  IF int_mod(h, Modulus) = 0
             THEN Return(nonce, h)
             ELSE nonce_loop_inclusive(root, limit, nonce + 1)

RECURSIVE nonce_loop(_, _, _)
nonce_loop(root, limit, nonce) ==
    IF nonce >= limit
    THEN Raise("RuntimeError")
    ELSE LET h == sha3(root \o to_bytes(nonce, NonceWidth))
         IN  IF int_mod(h, Modulus) = 0
             THEN Return(nonce, h)
             ELSE nonce_loop(root, limit, nonce + 1)

\* mutant: the search starts at nonce 1
find_nonce_from_one(root, limit) == nonce_loop(root, limit, 1)

find_nonce_for_mod19(root, limit) == nonce_loop(root, limit, 0)

----------------------------------------------------------------------------
(* Strings: sequences of code points *)

\* the code points the model's texts are written in
CP == [nl |-> 10, sp |-> 32, bar |-> 124, colon |-> 58, underscore |-> 95,
       d0 |-> 48, d1 |-> 49, d2 |-> 50, d9 |-> 57,
       e |-> 101, acute |-> 769, eacute |-> 233, alef |-> 1488]

IsSpace(c) == c \in {CP.sp, CP.nl}

\* unicodedata.normalize("NFC", s) on the model's alphabet: the only
\* composable pair is e + COMBINING ACUTE ACCENT -> e-acute
RECURSIVE nfc(_)
nfc(s) ==
    IF Len(s) < 2 THEN s
    ELSE IF s[1] = CP.e /\ s[2] = CP.acute
         THEN <<CP.eacute>> \o nfc(SubSeq(s, 3, Len(s)))
         ELSE <<s[1]>> \o nfc(Tail(s))

\* v.encode("utf-8")
utf8_char(c) ==
    IF c < 128 THEN <<c>>
    ELSE IF c < 2048 THEN <<192 + (c \div 64), 128 + (c % 64)>>
    ELSE <<224 + (c \div 4096), 128 + ((c \div 64) % 64), 128 + (c % 64)>>

RECURSIVE encode_utf8(_)
encode_utf8(s) ==
    IF s = <<>> THEN <<>> ELSE utf8_char(s[1]) \o encode_utf8(Tail(s))

\* text.splitlines(): split at line boundaries; no empty last line
RECURSIVE splitlines_from(_, _, _)
splitlines_from(t, cur, out) ==
    IF t = <<>> THEN (IF cur = <<>> THEN out ELSE Append(out, cur))
    ELSE IF t[1] = CP.nl THEN splitlines_from(Tail(t), <<>>, Append(out, cur))
    ELSE splitlines_from(Tail(t), Append(cur, t[1]), out)

splitlines(t) == splitlines_from(t, <<>>, <<>>)

\* s.strip()
RECURSIVE lstrip(_)
lstrip(s) == IF s # <<>> /\ IsSpace(s[1]) THEN lstrip(Tail(s)) ELSE s

RECURSIVE rstrip(_)
rstrip(s) ==
    IF s # <<>> /\ IsSpace(s[Len(s)]) THEN rstrip(SubSeq(s, 1, Len(s) - 1)) ELSE s

strip(s) == rstrip(lstrip(s))

\* c in s
Contains(s, c) == \E i \in 1..Len(s) : s[i] = c

\* the position of the first c in s, Len(s) + 1 when there is none
FirstIndex(s, c) ==
    IF Contains(s, c)
    THEN CHOOSE i \in 1..Len(s) : s[i] = c /\ \A j \in 1..(i - 1) : s[j] # c
    ELSE Len(s) + 1

\* s.split(c, 1) of an s that holds c: <<before, after>>
split_once(s, c) ==
    LET i == FirstIndex(s, c)
    IN  <<SubSeq(s, 1, i - 1), SubSeq(s, i + 1, Len(s))>>

\* s.split(c)[0]
split_first(s, c) == SubSeq(s, 1, FirstIndex(s, c) - 1)

\* s.replace(a, b) for single characters
replace_char(s, a, b) == [i \in 1..Len(s) |-> IF s[i] = a THEN b ELSE s[i]]

IsDigit(c) == c >= CP.d0 /\ c <= CP.d9

\* int(x) succeeds: surrounding whitespace is ignored, the rest is decimal
\* digits (the model's alphabet has no sign and no underscore in a key)
int_ok(x) ==
    LET y == strip(x)
    IN  y # <<>> /\ \A i \in 1..Len(y) : IsDigit(y[i])

RECURSIVE digits_value(_)
digits_value(y) ==
    IF y = <<>> THEN 0
    ELSE digits_value(SubSeq(y, 1, Len(y) - 1)) * 10 + (y[Len(y)] - CP.d0)

\* int(x), where it succeeds
int_of(x) == digits_value(strip(x))

----------------------------------------------------------------------------
(* Caching: out/cache on disk, a set of <<key, data>> with one data per key *)

cache_has(c, key) == \E p \in c : p[1] = key

\* cache_get, where it does not return None
cache_get(c, key) == (CHOOSE p \in c : p[1] = key)[2]

cache_put(c, key, data) == {p \in c : p[1] # key} \cup {<<key, data>>}

----------------------------------------------------------------------------
(* One unit of either builder: leaf hashes, root, seal *)

\* mutant: the leaf digests come out in reverse verse order
verse_hashes_reversed(verses) ==
    [i \in 1..Len(verses) |-> sha3(encode_utf8(verses[Len(verses) + 1 - i]))]

verse_hashes_of(verses) == [i \in 1..Len(verses) |-> sha3(encode_utf8(verses[i]))]

hex_list(hs) == [i \in 1..Len(hs) |-> hhex(hs[i])]

\* mutant: the recorded nonce is one more than the nonce found
chapter_entry_nonce_off(name, verses, verse_hashes, root, nonce, sealed) ==
    [name             |-> name,
     verse_count      |-> Len(verses),
     verse_hashes_hex |-> hex_list(verse_hashes),
     chapter_root_hex |-> hhex(root),
     nonce_uint64     |-> nonce + 1,
     sealed_root_hex  |-> hhex(sealed),
     sealed_root_mod19 |-> int_mod(sealed, Modulus)]

\* the dict build_quran_manifest appends for one sura
chapter_entry(name, verses, verse_hashes, root, nonce, sealed) ==
    [name             |-> name,
     verse_count      |-> Len(verses),
     verse_hashes_hex |-> hex_list(verse_hashes),
     chapter_root_hex |-> hhex(root),
     nonce_uint64     |-> nonce,
     sealed_root_hex  |-> hhex(sealed),
     sealed_root_mod19 |-> int_mod(sealed, Modulus)]

\* the dict build_torah_manifest appends for one sidra
sidra_entry(name, verses, verse_hashes, root, nonce, sealed) ==
    [name             |-> name,
     verse_count      |-> Len(verses),
     verse_hashes_hex |-> hex_list(verse_hashes),
     sidra_root_hex   |-> hhex(root),
     nonce_uint64     |-> nonce,
     sealed_root_hex  |-> hhex(sealed),
     sealed_root_mod19 |-> int_mod(sealed, Modulus)]

----------------------------------------------------------------------------
(* build_quran_manifest: parsing *)

\* chapters.setdefault(sura, []).append(v) on an insertion-ordered dict,
\* kept as a sequence of [key, verses]
dict_append(chapters, sura, v) ==
    IF \E i \in 1..Len(chapters) : chapters[i].key = sura
    THEN [i \in 1..Len(chapters) |->
            IF chapters[i].key = sura
            THEN [chapters[i] EXCEPT !.verses = Append(@, v)]
            ELSE chapters[i]]
    ELSE Append(chapters, [key |-> sura, verses |-> <<v>>])

\* the body of the parsing loop for one line
parse_line(chapters, raw) ==
    LET line == strip(raw)
    IN  IF line = <<>> \/ ~Contains(line, CP.bar)
        THEN chapters
        ELSE LET rv   == split_once(line, CP.bar)
                 sura == split_first(rv[1], CP.colon)
             IN  dict_append(chapters, sura, nfc(rv[2]))

RECURSIVE parse_lines(_, _)
parse_lines(chapters, lines) ==
    IF lines = <<>> THEN chapters
    ELSE parse_lines(parse_line(chapters, lines[1]), Tail(lines))

parse_chapters(t) == parse_lines(<<>>, splitlines(t))

\* sorted(chapters, key=lambda x: int(x)): stable, ascending by int(key)
sorted_insert(out, c) ==
    LET k == int_of(c.key)
        n == Cardinality({j \in 1..Len(out) : int_of(out[j].key) <= k})
    IN  SubSeq(out, 1, n) \o <<c>> \o SubSeq(out, n + 1, Len(out))

RECURSIVE sorted_from(_, _)
sorted_from(out, chapters) ==
    IF chapters = <<>> THEN out
    ELSE sorted_from(sorted_insert(out, chapters[1]), Tail(chapters))

\* mutant: the chapters are visited in dict order
sorted_chapters_unsorted(chapters) == chapters

sorted_chapters(chapters) == sorted_from(<<>>, chapters)

sura_name(sura) == <<83, 117, 114, 97, 32>> \o sura

----------------------------------------------------------------------------
(* fetch_sefaria_ref *)

\* a JSON value of the response
JStr(s)   == [kind |-> "str", val |-> s, items |-> <<>>]
JList(xs) == [kind |-> "list", val |-> <<>>, items |-> xs]
JNull     == [kind |-> "null", val |-> <<>>, items |-> <<>>]

\* flatten(x): the strings of x in order, each NFC-normalised
RECURSIVE flatten(_)
flatten(x) ==
    IF x.kind = "list"
    THEN LET RECURSIVE each(_)
             each(k) == IF k > Len(x.items) THEN <<>>
                        ELSE flatten(x.items[k]) \o each(k + 1)
         IN  each(1)
    ELSE IF x.kind = "str" THEN <<nfc(x.val)>>
    ELSE <<>>

\* HEBREW_LETTERS_RE.search(v): v holds a code point of U+0590..U+05FF or
\* U+FB1D..U+FB4F
hebrew_search(v) ==
    \E i \in 1..Len(v) : (v[i] >= 1424 /\ v[i] <= 1535) \/ (v[i] >= 64285 /\ v[i] <= 64335)

\* data.get("text", []) flattened and filtered
sefaria_verses(data) ==
    LET txt == IF data.has_text THEN data.text ELSE JList(<<>>)
    IN  SelectSeq(flatten(txt), hebrew_search)

sefaria_key(ref) == <<"sefaria/", replace_char(ref, CP.sp, CP.underscore), ".json">>

----------------------------------------------------------------------------
(* The inputs the model draws from *)

SeqsUpTo(S, n) == UNION {[1..k -> S] : k \in 0..n}

\* lines of a Tanzil text: "1:1|e", "2:1|e" + combining acute, "1:2|e-acute",
\* an empty line, a line without "|", " 2:2|e|e " (padded, "|" in the verse),
\* "01:1|alef", "e:1|e" (a key that is no integer), "1|" (no ":", empty verse)
LineSet ==
    { <<CP.d1, CP.colon, CP.d1, CP.bar, CP.e>>,
      <<CP.d2, CP.colon, CP.d1, CP.bar, CP.e, CP.acute>>,
      <<CP.d1, CP.colon, CP.d2, CP.bar, CP.eacute>>,
      <<>>,
      <<CP.e>>,
      <<CP.sp, CP.d2, CP.colon, CP.d2, CP.bar, CP.e, CP.bar, CP.e, CP.sp>>,
      <<CP.d0, CP.d1, CP.colon, CP.d1, CP.bar, CP.alef>>,
      <<CP.e, CP.colon, CP.d1, CP.bar, CP.e>>,
      <<CP.d1, CP.bar>> }

RECURSIVE join_lines(_)
join_lines(ls) ==
    IF ls = <<>> THEN <<>>
    ELSE IF Len(ls) = 1 THEN ls[1]
    ELSE ls[1] \o <<CP.nl>> \o join_lines(Tail(ls))

QuranTexts == {join_lines(ls) : ls \in SeqsUpTo(LineSet, MaxLines)}

\* Sefaria refs: "G 1", "G_1" (same cache key as "G 1"), "E"
Refs == { <<71, CP.sp, CP.d1>>, <<71, CP.underscore, CP.d1>>, <<69>> }

SidrotLists == SeqsUpTo(Refs, MaxSidrot)

\* Sefaria responses: no "text"; a flat list; nested lists with a composable
\* pair and a verse without Hebrew; only non-Hebrew; a bare string; a list
\* with a null and three verses
Responses ==
    { [has_text |-> FALSE, text |-> JNull],
      [has_text |-> TRUE, text |-> JList(<<JStr(<<CP.alef>>)>>)],
      [has_text |-> TRUE,
       text |-> JList(<<JList(<<JStr(<<CP.alef, CP.e, CP.acute>>), JStr(<<CP.e>>)>>),
                        JList(<<JStr(<<CP.alef>>)>>)>>)],
      [has_text |-> TRUE, text |-> JList(<<JStr(<<CP.e>>)>>)],
      [has_text |-> TRUE, text |-> JStr(<<CP.alef, CP.bar>>)],
      [has_text |-> TRUE,
       text |-> JList(<<JNull, JStr(<<CP.alef>>), JStr(<<CP.alef, CP.alef>>),
                        JStr(<<CP.alef, CP.e>>)>>)] }

----------------------------------------------------------------------------
(* The builders' loop bodies *)

Ok(m)        == [ok |-> TRUE, exc |-> "none", manifest |-> m]
Failed(m, x) == [ok |-> FALSE, exc |-> x, manifest |-> m]

\* mutant: an exhausted search skips the sura and the build goes on
quran_unit_skip_exhausted(m, c) ==
    LET verses       == c.verses
        verse_hashes == verse_hashes_of(verses)
        call         == merkle_call(verse_hashes)
        root         == call.root
        r            == find_nonce_for_mod19(root, DefaultLimit)
    IN  IF r.kind = "raise" THEN Ok(m)
        ELSE Ok(Append(m, chapter_entry(sura_name(c.key), verses, call.arg,
                                        root, r.nonce, r.h)))

\* build_quran_manifest, one iteration of "for sura in sorted(chapters ...)"
quran_unit(m, c) ==
    LET verses       == c.verses
        verse_hashes == verse_hashes_of(verses)
        call         == merkle_call(verse_hashes)
        root         == call.root
        r            == find_nonce_for_mod19(root, DefaultLimit)
    IN  IF r.kind = "raise" THEN Failed(m, r.exc)
        ELSE Ok(Append(m, chapter_entry(sura_name(c.key), verses, call.arg,
                                        root, r.nonce, r.h)))

\* mutant: a sidra without verses is sealed like any other
torah_unit_no_skip(m, ref, verses) ==
    LET verse_hashes == verse_hashes_of(verses)
        call         == merkle_call(verse_hashes)
        root         == call.root
        r            == find_nonce_for_mod19(root, DefaultLimit)
    IN  IF r.kind = "raise" THEN Failed(m, r.exc)
        ELSE Ok(Append(m, sidra_entry(ref, verses, call.arg,
                                      root, r.nonce, r.h)))

\* build_torah_manifest, one iteration of "for ref in sidrot_list", after
\* fetch_sefaria_ref returned verses
torah_unit(m, ref, verses) ==
    IF verses = <<>> THEN Ok(m)
    ELSE LET verse_hashes == verse_hashes_of(verses)
             call         == merkle_call(verse_hashes)
             root         == call.root
             r            == find_nonce_for_mod19(root, DefaultLimit)
         IN  IF r.kind = "raise" THEN Failed(m, r.exc)
             ELSE Ok(Append(m, sidra_entry(ref, verses, call.arg,
                                           root, r.nonce, r.h)))

----------------------------------------------------------------------------
(* main and the builders as a state machine *)

Idle == [kind |-> "idle"]

Init ==
    /\ which \in {"quran", "torah"}
    /\ pc = "main"
    /\ text = <<>>
    /\ sidrot_list \in (IF which = "torah" THEN SidrotLists ELSE {<<>>})
    /\ cache = {}
    /\ pending = <<>>
    /\ units = <<>>
    /\ manifest = <<>>
    /\ error = "none"
    /\ outfile = <<>>
    /\ nroot = <<>> /\ nlimit = 0 /\ nresult = Idle
    /\ leaves = <<>> /\ mresult = Idle

\* main, quran branch, up to the builder's loop: fetch_quran_uthmani (the
\* cache is empty, so the text comes from the network), parse, sort
QuranFetchOk ==
    /\ pc = "main" /\ which = "quran"
    /\ \E t \in QuranTexts :
         LET chapters == parse_chapters(t)
         IN  /\ text' = t
             /\ cache' = cache_put(cache, "tanzil/quran-uthmani.txt", t)
             /\ IF \A i \in 1..Len(chapters) : int_ok(chapters[i].key)
                THEN /\ pending' = sorted_chapters(chapters)
                     /\ pc' = "quran_loop"
                     /\ error' = "none"
                ELSE /\ pending' = <<>>
                     /\ pc' = "failed"
                     /\ error' = "ValueError"
    /\ UNCHANGED <<which, sidrot_list, units, manifest, outfile>>
    /\ UNCHANGED <<nonceVars, merkleVars>>

\* r.raise_for_status() raises: nothing is cached, main ends
QuranFetchFails ==
    /\ pc = "main" /\ which = "quran"
    /\ pc' = "failed" /\ error' = "HTTPError"
    /\ UNCHANGED <<which, text, sidrot_list, cache, pending, units, manifest, outfile>>
    /\ UNCHANGED <<nonceVars, merkleVars>>

QuranStep ==
    /\ pc = "quran_loop" /\ pending # <<>>
    /\ LET c == Head(pending)
           r == quran_unit(manifest, c)
       IN  /\ units' = Append(units, [name |-> sura_name(c.key), verses |-> c.verses])
           /\ manifest' = r.manifest
           /\ error' = r.exc
           /\ pc' = IF r.ok THEN "quran_loop" ELSE "failed"
           /\ pending' = Tail(pending)
    /\ UNCHANGED <<which, text, sidrot_list, cache, outfile>>
    /\ UNCHANGED <<nonceVars, merkleVars>>

\* main, torah branch: json.load(args.sidrot), then the builder's loop
TorahStart ==
    /\ pc = "main" /\ which = "torah"
    /\ pending' = sidrot_list
    /\ pc' = "torah_loop"
    /\ UNCHANGED <<which, text, sidrot_list, cache, units, manifest, error, outfile>>
    /\ UNCHANGED <<nonceVars, merkleVars>>

\* one iteration whose fetch_sefaria_ref returns: from the cache when the key
\* is there, else from the network (and the response is cached)
TorahStep ==
    /\ pc = "torah_loop" /\ pending # <<>>
    /\ LET ref == Head(pending)
           key == sefaria_key(ref)
       IN  \E data \in (IF cache_has(cache, key) THEN {cache_get(cache, key)}
                        ELSE Responses) :
             LET verses == sefaria_verses(data)
                 r      == torah_unit(manifest, ref, verses)
             IN  /\ cache' = cache_put(cache, key, data)
                 /\ units' = Append(units, [name |-> ref, verses |-> verses])
                 /\ manifest' = r.manifest
                 /\ error' = r.exc
                 /\ pc' = IF r.ok THEN "torah_loop" ELSE "failed"
                 /\ pending' = Tail(pending)
    /\ UNCHANGED <<which, text, sidrot_list, outfile>>
    /\ UNCHANGED <<nonceVars, merkleVars>>

\* one iteration whose fetch misses the cache and raise_for_status() raises
TorahFetchFails ==
    /\ pc = "torah_loop" /\ pending # <<>>
    /\ ~cache_has(cache, sefaria_key(Head(pending)))
    /\ pc' = "failed" /\ error' = "HTTPError"
    /\ UNCHANGED <<which, text, sidrot_list, cache, pending, units, manifest, outfile>>
    /\ UNCHANGED <<nonceVars, merkleVars>>

\* the loop is over: the builder returns the manifest to main
BuilderReturn ==
    /\ pc \in {"quran_loop", "torah_loop"} /\ pending = <<>>
    /\ pc' = "write"
    /\ UNCHANGED <<which, text, sidrot_list, cache, pending, units, manifest, error, outfile>>
    /\ UNCHANGED <<nonceVars, merkleVars>>

manifest_path == IF which = "quran" THEN "quran_manifest.json" ELSE "torah_manifest.json"

\* main: json.dump(m, f) into the output directory
MainWrite ==
    /\ pc = "write"
    /\ outfile' = <<[path |-> manifest_path, units |-> manifest]>>
    /\ pc' = "done"
    /\ UNCHANGED <<which, text, sidrot_list, cache, pending, units, manifest, error>>
    /\ UNCHANGED <<nonceVars, merkleVars>>

Next ==
    \/ QuranFetchOk
    \/ QuranFetchFails
    \/ QuranStep
    \/ TorahStart
    \/ TorahStep
    \/ TorahFetchFails
    \/ BuilderReturn
    \/ MainWrite

Spec == Init /\ [][Next]_vars

----------------------------------------------------------------------------
(* find_nonce_for_mod19 called alone, on any root and any limit *)

RootBytes == {0, 1, 7, 77, 128, 255}
Roots  == [1..DigestLen -> RootBytes]
Limits == (-1)..MaxLimit

InitNonce ==
    /\ nroot \in Roots
    /\ nlimit \in Limits
    /\ nresult = Idle
    /\ which = "none" /\ pc = "idle" /\ text = <<>> /\ sidrot_list = <<>>
    /\ cache = {} /\ pending = <<>> /\ units = <<>> /\ manifest = <<>>
    /\ error = "none" /\ outfile = <<>>
    /\ leaves = <<>> /\ mresult = Idle

NonceCall ==
    /\ nresult = Idle
    /\ nresult' = find_nonce_for_mod19(nroot, nlimit)
    /\ UNCHANGED <<nroot, nlimit>>
    /\ UNCHANGED <<mainVars, merkleVars>>

NextNonce == NonceCall

SpecNonce == InitNonce /\ [][NextNonce]_vars

----------------------------------------------------------------------------
(* merkle_root called alone, on any leaf sequence *)

LeafSet == {sha3(<<>>), sha3(<<1>>), sha3(<<2>>)}

InitMerkle ==
    /\ leaves \in SeqsUpTo(LeafSet, MaxLeaves)
    /\ mresult = Idle
    /\ which = "none" /\ pc = "idle" /\ text = <<>> /\ sidrot_list = <<>>
    /\ cache = {} /\ pending = <<>> /\ units = <<>> /\ manifest = <<>>
    /\ error = "none" /\ outfile = <<>>
    /\ nroot = <<>> /\ nlimit = 0 /\ nresult = Idle

MerkleCall ==
    /\ mresult = Idle
    /\ mresult' = [kind |-> "return", root |-> merkle_root(leaves)]
    /\ UNCHANGED leaves
    /\ UNCHANGED <<mainVars, nonceVars>>

NextMerkle == MerkleCall

SpecMerkle == InitMerkle /\ [][NextMerkle]_vars

----------------------------------------------------------------------------
(* Reference notions the properties are stated in *)

\* n as 8 bytes, big-endian, for n < 2^24
BE8(n) == <<0, 0, 0, 0, 0, (n \div 65536) % 256, (n \div 256) % 256, n % 256>>

\* the residue mod 19 of Hash(root || n as 8 bytes big-endian)
Residue(root, n) == from_bytes(sha3(root \o BE8(n))) % 19

\* the bytes a hex string stands for
HexVal(ch) == CHOOSE i \in 0..15 : HexDigits[i + 1] = ch

RECURSIVE unhex(_)
unhex(hx) ==
    IF Len(hx) < 2 THEN <<>>
    ELSE <<HexVal(hx[1]) * 16 + HexVal(hx[2])>> \o unhex(SubSeq(hx, 3, Len(hx)))

\* the bottom-up fold: the next layer has ceil(len/2) elements
RefNextLayer(layer) ==
    [k \in 1..((Len(layer) + 1) \div 2) |->
        IF 2 * k <= Len(layer)
        THEN sha3(layer[2 * k - 1] \o layer[2 * k])
        ELSE sha3(layer[2 * k - 1] \o layer[2 * k - 1])]

RECURSIVE RefRoot(_)
RefRoot(layer) == IF Len(layer) = 1 THEN layer[1] ELSE RefRoot(RefNextLayer(layer))

----------------------------------------------------------------------------
(* Properties of find_nonce_for_mod19 (under SpecNonce) *)

\* C1: whenever find_nonce_for_mod19(root, limit) returns (n, h): 0 <= n < limit,
\* h = Hash(root || n as 8 bytes big-endian), h is 0 mod 19, and no smaller
\* nonce m has Hash(root || m) equal to 0 mod 19.
C1_SmallestNonce ==
    nresult.kind = "return" =>
        /\ nresult.nonce >= 0 /\ nresult.nonce < nlimit
        /\ nresult.h = sha3(nroot \o BE8(nresult.nonce))
        /\ from_bytes(nresult.h) % 19 = 0
        /\ \A m \in 0..(nresult.nonce - 1) : Residue(nroot, m) # 0

C1_Witness ==
    /\ nresult.kind = "return"
    /\ nresult.nonce >= 2

\* C2: when no nonce in [0, limit) gives a digest that is 0 mod 19 (limit 0
\* and limit 1 included), the call ends in the exhaustion error and returns
\* no pair; a returned pair always has a digest that is 0 mod 19 and a nonce
\* below the limit.
C2_Exhaustion ==
    nresult # Idle =>
        /\ (\A n \in 0..(nlimit - 1) : Residue(nroot, n) # 0)
              => nresult = [kind |-> "raise", exc |-> "RuntimeError"]
        /\ nresult.kind = "return"
              => /\ from_bytes(nresult.h) % 19 = 0
                 /\ nresult.nonce < nlimit

C2_Witness ==
    /\ nresult.kind = "raise"
    /\ nlimit = 1
    /\ Residue(nroot, 0) # 0

----------------------------------------------------------------------------
(* Properties of merkle_root (under SpecMerkle) *)

\* C3: for two or more leaves merkle_root is the bottom-up fold that pairs
\* neighbours and pairs an odd last node with itself; leaves [A, B, C] give
\* Hash(Hash(A || B) || Hash(C || C)).
C3_MerkleFold ==
    (mresult # Idle /\ Len(leaves) >= 2) =>
        /\ mresult.root = RefRoot(leaves)
        /\ Len(leaves) = 3 =>
              mresult.root = sha3(sha3(leaves[1] \o leaves[2])
                                  \o sha3(leaves[3] \o leaves[3]))

C3_Witness ==
    /\ mresult # Idle
    /\ Len(leaves) = 5
    /\ leaves[5] # leaves[4]

\* C4: for a single leaf [h] merkle_root returns h itself.
C4_SingleLeaf ==
    (mresult # Idle /\ Len(leaves) = 1) => mresult.root = leaves[1]

C4_Witness ==
    /\ mresult # Idle
    /\ Len(leaves) = 1

\* C5: for no leaves merkle_root returns Hash(empty byte string), as a normal
\* result.
C5_EmptyLeaves ==
    (mresult # Idle /\ leaves = <<>>) =>
        mresult = [kind |-> "return", root |-> sha3(<<>>)]

C5_Witness ==
    /\ mresult # Idle
    /\ leaves = <<>>

----------------------------------------------------------------------------
(* Properties of the manifests (under Spec) *)

RootHex(e) == IF which = "quran" THEN e.chapter_root_hex ELSE e.sidra_root_hex

NonEmpty(u) == u.verses # <<>>

\* the units that yielded verses, in the order the builder visited them
NonEmptyUnits == SelectSeq(units, NonEmpty)

EntryNames == [k \in 1..Len(manifest) |-> manifest[k].name]

\* the units of the input, counted
InputUnitCount ==
    IF which = "quran" THEN Len(parse_chapters(text)) ELSE Len(sidrot_list)

\* C6: every entry has sealed_root_mod19 = 0, its sealed_root_hex is the hex of
\* Hash(root || nonce_uint64 as 8 bytes big-endian) for the root its root hex
\* gives, and that root is merkle_root of its own verse_hashes_hex in order.
C6_EntrySealed ==
    \A k \in 1..Len(manifest) :
        LET e    == manifest[k]
            root == unhex(RootHex(e))
            lvs  == [i \in 1..Len(e.verse_hashes_hex) |-> unhex(e.verse_hashes_hex[i])]
        IN  /\ e.sealed_root_mod19 = 0
            /\ from_bytes(unhex(e.sealed_root_hex)) % 19 = 0
            /\ e.sealed_root_hex = hhex(sha3(root \o BE8(e.nonce_uint64)))
            /\ root = merkle_root(lvs)

C6_Witness ==
    /\ pc = "done"
    /\ \E k \in 1..Len(manifest) :
          /\ manifest[k].nonce_uint64 >= 2
          /\ Len(manifest[k].verse_hashes_hex) >= 2
    /\ Len(outfile) = 1

\* the names of the chapters in the order the text supplies them
TextOrderNames ==
    LET chapters == parse_chapters(text)
    IN  [i \in 1..Len(chapters) |-> sura_name(chapters[i].key)]

\* Torah: the entries are the refs of sidrot_list that yielded verses, in the
\* order of sidrot_list
TorahInListOrder ==
    /\ Len(units) = Len(sidrot_list)
    /\ \A i \in 1..Len(units) : units[i].name = sidrot_list[i]
    /\ EntryNames = [k \in 1..Len(NonEmptyUnits) |-> NonEmptyUnits[k].name]

\* C7 as stated: the entries are in the order of the input units, for both
\* builders; for the Qur'an, the order in which the text supplies the chapters.
C7_InputOrder ==
    pc = "done" =>
        IF which = "quran" THEN EntryNames = TextOrderNames
        ELSE TorahInListOrder

SuraKey(name) == SubSeq(name, 6, Len(name))

TextPos(name) == CHOOSE i \in 1..Len(TextOrderNames) : TextOrderNames[i] = name

\* C7 amended: the Torah entries follow sidrot_list (empty units removed); the
\* Qur'an entries are the chapters of the text in ascending order of the
\* integer value of the sura key, keys of equal value in the order the text
\* first supplies them.
C7_SortedOrder ==
    pc = "done" =>
        IF which = "quran"
        THEN /\ Len(EntryNames) = Len(TextOrderNames)
             /\ {EntryNames[k] : k \in 1..Len(EntryNames)}
                  = {TextOrderNames[k] : k \in 1..Len(TextOrderNames)}
             /\ \A i, j \in 1..Len(EntryNames) :
                   i < j =>
                     \/ int_of(SuraKey(EntryNames[i])) < int_of(SuraKey(EntryNames[j]))
                     \/ /\ int_of(SuraKey(EntryNames[i])) = int_of(SuraKey(EntryNames[j]))
                        /\ TextPos(EntryNames[i]) < TextPos(EntryNames[j])
        ELSE TorahInListOrder

C7_Witness ==
    /\ pc = "done"
    /\ which = "quran"
    /\ Len(manifest) >= 2
    /\ EntryNames # TextOrderNames

\* C8: a unit without verses is skipped and does not fail the build (after it
\* the build is running or ended, or failed on the fetch of a later unit): it
\* adds no entry, the later units are still processed and get their entries,
\* and no entry has verse_count 0 or an empty verse_hashes_hex.
C8_EmptySkipped ==
    /\ \A k \in 1..Len(manifest) :
          /\ manifest[k].verse_count >= 1
          /\ Len(manifest[k].verse_hashes_hex) >= 1
    /\ (units # <<>> /\ units[Len(units)].verses = <<>>)
          => /\ error \in {"none", "HTTPError"}
             /\ error = "none" => pc # "failed"
    /\ pc \in {"write", "done"}
          => /\ Len(units) = InputUnitCount
             /\ Len(manifest) = Len(NonEmptyUnits)

C8_Witness ==
    /\ pc = "done"
    /\ which = "torah"
    /\ Len(units) = 2
    /\ units[1].verses = <<>>
    /\ Len(manifest) = 1
    /\ manifest[1].name = units[2].name

\* the nonce search of unit u is exhausted
Exhausts(u) ==
    /\ u.verses # <<>>
    /\ \A n \in 0..(DefaultLimit - 1) :
          Residue(merkle_root(verse_hashes_of(u.verses)), n) # 0

\* C9: once the nonce search of a unit is exhausted the build has failed: the
\* builder returns no manifest and main writes no file, however many units
\* were sealed before.
C9_HardFail ==
    (\E i \in 1..Len(units) : Exhausts(units[i]))
        => /\ pc = "failed"
           /\ error = "RuntimeError"
           /\ outfile = <<>>

C9_Witness ==
    /\ pc = "failed"
    /\ error = "RuntimeError"
    /\ Len(manifest) >= 1
    /\ Exhausts(units[Len(units)])

\* C10: every entry lists the leaf digests in verse order: verse_count is the
\* length of verse_hashes_hex, and the i-th hex is that of Hash(UTF-8 of the
\* i-th verse of the unit), the root computation changing nothing of the list.
C10_LeafOrder ==
    /\ Len(manifest) <= Len(NonEmptyUnits)
    /\ \A k \in 1..Len(manifest) :
          LET e == manifest[k]
              u == NonEmptyUnits[k]
          IN  /\ e.name = u.name
              /\ e.verse_count = Len(u.verses)
              /\ e.verse_count = Len(e.verse_hashes_hex)
              /\ \A i \in 1..Len(u.verses) :
                    e.verse_hashes_hex[i] = hhex(sha3(encode_utf8(u.verses[i])))

C10_Witness ==
    /\ pc = "done"
    /\ \E k \in 1..Len(manifest) :
          /\ manifest[k].verse_count >= 2
          /\ manifest[k].verse_hashes_hex[1] # manifest[k].verse_hashes_hex[2]

====
